---- MODULE Spec2Model ----
(***************************************************************************)
(* A model of src/moodmelt.py: one run of the Streamlit script, from the   *)
(* uploaded CSV file through parse_csv, the sidebar filters, the optional  *)
(* Gemini summary (generate_campaign_summary) and the five chart views.    *)
(*                                                                         *)
(* Data representation                                                     *)
(*   - a CSV cell is a string; the empty cell is what read_csv turns into  *)
(*     NaN.  NaN compares unequal to everything, itself included (PdEq).   *)
(*   - a timestamp is a number of hours (day * 24 + hour of the day).      *)
(*   - a number read from the Engagements column is kept in tenths, so     *)
(*     that a fractional cell ("2.7") and its truncation by astype(int)    *)
(*     are both representable.                                             *)
(*   - the files have the columns the uploader asks for (line 122); the    *)
(*     'Media Type' column is optional, as in the code.                    *)
(***************************************************************************)
EXTENDS Integers, Sequences, FiniteSets

VARIABLES
    pc,               \* position of the script run
    uploaded_file,    \* <<>> (None) or <<file>>
    df,               \* parse_csv's result
    platform, sentiment, media_type, location, date_range,  \* sidebar widgets
    filtered_df,      \* df after the filters
    gemini_api_key,   \* text_input
    clicked,          \* st.button("Buat Ringkasan Strategi")
    call,             \* generate_campaign_summary: "none", "running", "returned", "raised"
    insights,         \* the scalars generate_campaign_summary puts in the prompt
    requests,         \* number of requests.post calls of the run
    summary,          \* generate_campaign_summary's return value (its kind)
    views             \* the five chart data frames

vars == <<pc, uploaded_file, df, platform, sentiment, media_type, location,
          date_range, filtered_df, gemini_api_key, clicked, call, insights,
          requests, summary, views>>

-----------------------------------------------------------------------------
(* Bounds of the model *)

MaxRows == 2
MaxModeRows == 3
MaxParseRows == 3

-----------------------------------------------------------------------------
(* Generic helpers *)

RECURSIVE SumSeq(_)
SumSeq(s) == IF s = <<>> THEN 0 ELSE Head(s) + SumSeq(Tail(s))

Range(s) == {s[i] : i \in 1..Len(s)}

SeqsUpTo(S, n) == UNION {[1..k -> S] : k \in 0..n}

Column(frame, col) == [i \in 1..Len(frame) |-> frame[i][col]]

-----------------------------------------------------------------------------
(* pandas values *)

NaN == "nan"

\* elementwise ==  of a column with a scalar: NaN equals nothing
PdEq(a, b) == a # NaN /\ b # NaN /\ a = b

\* read_csv: an empty cell is a missing value
ReadCell(s) == IF s = "" THEN NaN ELSE s

\* pd.to_datetime(..., errors='coerce'): {timestamp}, or {} for NaT
ToDatetime(s) ==
    CASE s = "2024-01-01 00:00" -> {24}
      [] s = "2024-01-01 20:00" -> {44}
      [] s = "2024-01-02 00:00" -> {48}
      [] s = "2024-01-02 10:00" -> {58}
      [] OTHER -> {}

\* pd.to_numeric(..., errors='coerce'): {value in tenths}, or {} for NaN
ToNumeric(s) ==
    CASE s = "10"   -> {100}
      [] s = "12"   -> {120}
      [] s = "-5"   -> {-50}
      [] s = "2.7"  -> {27}
      [] s = "-2.7" -> {-27}
      [] OTHER -> {}

\* .fillna(0)
FillNa0(v) == IF v = {} THEN 0 ELSE CHOOSE x \in v : TRUE

\* .astype(int) of a float: truncation toward zero
AsTypeInt(t) == IF t >= 0 THEN t \div 10 ELSE -((-t) \div 10)

\* Timestamp.date() as a day number, and pd.to_datetime(date): midnight
DateOf(ts) == ts \div 24
Midnight(day) == day * 24

-----------------------------------------------------------------------------
(* parse_csv *)

\* lines 37-40: the two coercions, row by row; Date is {} (NaT) or {ts}
Coerce(file, r) ==
    [Date        |-> ToDatetime(r.Date),
     Engagements |-> AsTypeInt(FillNa0(ToNumeric(r.Engagements))),
     Sentiment   |-> ReadCell(r.Sentiment),
     Platform    |-> ReadCell(r.Platform),
     MediaType   |-> IF file.hasMedia THEN ReadCell(r.MediaType) ELSE NaN,
     Location    |-> ReadCell(r.Location)]

\* line 43: dropna(subset=['Date', 'Engagements']); Engagements is never NaN here
NotNaDate(c) == c.Date # {}

\* (a variant that keeps the rows whose date is NaT)
DropNaKeepAll(coerced) == coerced

DropNa(coerced) == SelectSeq(coerced, NotNaDate)

\* the frame parse_csv returns (a row with a NaT date never gets here)
Settle(c) ==
    [Date        |-> IF c.Date = {} THEN 0 ELSE CHOOSE x \in c.Date : TRUE,
     Engagements |-> c.Engagements,
     Sentiment   |-> c.Sentiment,
     Platform    |-> c.Platform,
     MediaType   |-> c.MediaType,
     Location    |-> c.Location]

parse_csv(file) ==
    LET coerced == [i \in 1..Len(file.rows) |-> Coerce(file, file.rows[i])]
        kept    == DropNa(coerced)
    IN  [i \in 1..Len(kept) |-> Settle(kept[i])]

-----------------------------------------------------------------------------
(* The uploaded files *)

RawRow(d, e, s, p, m, l) ==
    [Date |-> d, Engagements |-> e, Sentiment |-> s, Platform |-> p,
     MediaType |-> m, Location |-> l]

\* rows that vary the Date and Engagements cells
ParseRows ==
    {RawRow(d, e, "Positive", "X", "Image", "NY") :
        d \in {"2024-01-01 00:00", "2024-01-02 10:00", "bad-date"},
        e \in {"10", "abc", "", "-5", "2.7", "-2.7"}}

ParseFiles ==
    {[hasMedia |-> TRUE, rows |-> rs] : rs \in SeqsUpTo(ParseRows, MaxParseRows)}

-----------------------------------------------------------------------------
(* State *)

NoInsights ==
    [dominant_sentiment |-> "N/A", top_platform |-> "N/A",
     top_platform_engagements |-> 0, overall_trend |-> "stabil",
     dominant_media_type |-> "N/A", top_location |-> "N/A",
     top_location_engagements |-> 0]

NoViews ==
    [computed |-> FALSE, sentiment_data |-> <<>>, platform_data |-> <<>>,
     media_type_data |-> <<>>, location_data |-> <<>>,
     engagement_trend_data |-> <<>>]

Init ==
    /\ pc = "upload"
    /\ uploaded_file = <<>>
    /\ df = <<>>
    /\ platform = "All" /\ sentiment = "All" /\ media_type = "All" /\ location = "All"
    /\ date_range = <<>>
    /\ filtered_df = <<>>
    /\ gemini_api_key = ""
    /\ clicked = FALSE
    /\ call = "none"
    /\ insights = NoInsights
    /\ requests = 0
    /\ summary = "none"
    /\ views = NoViews

\* lines 121-129: the script stops until a file is uploaded
Upload(f) ==
    /\ pc = "upload"
    /\ uploaded_file' = <<f>>
    /\ pc' = "parse"
    /\ UNCHANGED <<df, platform, sentiment, media_type, location, date_range,
                   filtered_df, gemini_api_key, clicked, call, insights,
                   requests, summary, views>>

\* lines 132-136
Parse ==
    /\ pc = "parse"
    /\ df' = parse_csv(uploaded_file[1])
    /\ pc' = IF df' = <<>> THEN "stopped" ELSE "sidebar"
    /\ UNCHANGED <<uploaded_file, platform, sentiment, media_type, location,
                   date_range, filtered_df, gemini_api_key, clicked, call,
                   insights, requests, summary, views>>

-----------------------------------------------------------------------------
(* Python's order on the category strings (code-point order), for sorted(),  *)
(* Series.mode() and the group keys of groupby                              *)

AlphaOrder == <<"Image", "LA", "NY", "Negative", "Positive", "Video", "X", "Y">>

AlphaRank(s) == CHOOSE i \in 1..Len(AlphaOrder) : AlphaOrder[i] = s

\* a set of records with distinct integer fields ord, as a sequence by ord
RECURSIVE SortByOrd(_)
SortByOrd(S) ==
    IF S = {} THEN <<>>
    ELSE LET m == CHOOSE x \in S : \A y \in S : x.ord <= y.ord
         IN  <<m>> \o SortByOrd(S \ {m})

Entry(e) == [name |-> e.name, value |-> e.value]

Entries(sorted) == [i \in 1..Len(sorted) |-> Entry(sorted[i])]

-----------------------------------------------------------------------------
(* Sidebar, lines 142-168 *)

Unique(frame, col) == Range(Column(frame, col))

\* sorted(list): comparing a float NaN with a str raises TypeError
SortedRaises(values) == NaN \in values /\ Cardinality(values) > 1

HasMedia == uploaded_file[1].hasMedia

SidebarRaises ==
    \/ SortedRaises(Unique(df, "Platform"))
    \/ SortedRaises(Unique(df, "Sentiment"))
    \/ HasMedia /\ SortedRaises(Unique(df, "MediaType"))
    \/ SortedRaises(Unique(df, "Location"))

Options(col) == {"All"} \cup Unique(df, col)

MediaOptions == IF HasMedia THEN Options("MediaType") ELSE {"All"}

Days(frame) == {DateOf(frame[i].Date) : i \in 1..Len(frame)}

min_date == CHOOSE d \in Days(df) : \A e \in Days(df) : d <= e
max_date == CHOOSE d \in Days(df) : \A e \in Days(df) : d >= e

\* st.date_input: a complete range, or a single date while the range is being picked
DateInputs ==
    LET D == min_date..max_date
    IN  {r \in D \X D : r[1] <= r[2]} \cup {<<s>> : s \in D}

\* an exception leaves the run: nothing below the raising line is executed
Sidebar ==
    /\ pc = "sidebar"
    /\ IF SidebarRaises
       THEN /\ pc' = "exception"
            /\ UNCHANGED <<platform, sentiment, media_type, location, date_range>>
       ELSE /\ pc' = "filter"
            /\ platform'   \in Options("Platform")
            /\ sentiment'  \in Options("Sentiment")
            /\ media_type' \in MediaOptions
            /\ location'   \in Options("Location")
            /\ date_range' \in DateInputs
    /\ UNCHANGED <<uploaded_file, df, filtered_df, gemini_api_key, clicked, call,
                   insights, requests, summary, views>>

-----------------------------------------------------------------------------
(* Applying the filters, lines 171-188 *)

\* frame[frame[col] == value]
WhereEq(frame, col, value) ==
    LET Test(r) == PdEq(r[col], value) IN SelectSeq(frame, Test)

\* lines 182-184: both ends of the range are midnights
WhereDateBetween(frame, range) ==
    LET start_date == Midnight(range[1])
        end_date   == Midnight(range[2])
        Test(r)    == r.Date >= start_date /\ r.Date <= end_date
    IN  SelectSeq(frame, Test)

ApplyFiltersTo(frame, hasMedia, p, s, m, l, range) ==
    LET f1 == IF p # "All" THEN WhereEq(frame, "Platform", p) ELSE frame
        f2 == IF s # "All" THEN WhereEq(f1, "Sentiment", s) ELSE f1
        f3 == IF hasMedia /\ m # "All" THEN WhereEq(f2, "MediaType", m) ELSE f2
        f4 == IF l # "All" THEN WhereEq(f3, "Location", l) ELSE f3
    IN  IF Len(range) = 2 THEN WhereDateBetween(f4, range) ELSE f4

ApplyFilters ==
    /\ pc = "filter"
    /\ filtered_df' = ApplyFiltersTo(df, HasMedia, platform, sentiment, media_type,
                                     location, date_range)
    /\ pc' = IF filtered_df' = <<>> THEN "stopped" ELSE "summary"
    /\ UNCHANGED <<uploaded_file, df, platform, sentiment, media_type, location,
                   date_range, gemini_api_key, clicked, call, insights, requests,
                   summary, views>>

-----------------------------------------------------------------------------
(* Aggregations *)

Count(frame, col, v) == Cardinality({i \in 1..Len(frame) : frame[i][col] = v})

\* the non-missing values of a column
Present(frame, col) == Unique(frame, col) \ {NaN}

\* Series.mode(): the most frequent non-missing values (dropna=True), sorted
Modes(frame, col) ==
    {v \in Present(frame, col) :
        \A w \in Present(frame, col) : Count(frame, col, v) >= Count(frame, col, w)}

\* (a variant that breaks ties by first appearance in the frame)
ModeFirstSeen(frame, col) ==
    LET i == CHOOSE j \in 1..Len(frame) :
                 /\ frame[j][col] \in Modes(frame, col)
                 /\ \A k \in 1..(j - 1) : frame[k][col] \notin Modes(frame, col)
    IN  frame[i][col]

\* Series.mode()[0]: the first of the sorted modes
Mode0(frame, col) ==
    CHOOSE v \in Modes(frame, col) :
        \A w \in Modes(frame, col) : AlphaRank(v) <= AlphaRank(w)

\* mode()[0] on an empty result raises KeyError
Mode0Raises(frame, col) == Modes(frame, col) = {}

\* the sum of Engagements over the rows whose group key is k
SumForKey(frame, keys, k) ==
    SumSeq([i \in 1..Len(frame) |-> IF keys[i] = k THEN frame[i].Engagements ELSE 0])

\* groupby(col)['Engagements'].sum(): one group per non-missing key (dropna=True)
GroupSum(frame, col) ==
    {[name |-> k, value |-> SumForKey(frame, Column(frame, col), k)] :
        k \in Present(frame, col)}

\* .sort_values(ascending=False); equal sums stay in key order
SortDescending(groups) ==
    Entries(SortByOrd({[name |-> g.name, value |-> g.value,
                        ord |-> AlphaRank(g.name) - g.value * 10] : g \in groups}))

\* .sort_values(); equal sums stay in key order
SortAscending(groups) ==
    Entries(SortByOrd({[name |-> g.name, value |-> g.value,
                        ord |-> AlphaRank(g.name) + g.value * 10] : g \in groups}))

TopN == 5

\* .nlargest(5)
NLargest(groups) ==
    LET d == SortDescending(groups)
    IN  Range(SubSeq(d, 1, IF Len(d) < TopN THEN Len(d) ELSE TopN))

\* groupby(keys)['Engagements'].sum().sort_index() for a numeric key per row
SumByKey(frame, keys) ==
    Entries(SortByOrd(
        {[name |-> k, value |-> SumForKey(frame, keys, k), ord |-> k] :
            k \in Range(keys)}))

\* line 63: groupby('Date'), the key is the whole timestamp
TimestampKeys(frame) == Column(frame, "Date")

\* line 273: groupby(filtered_df['Date'].dt.date)
DayKeys(frame) == [i \in 1..Len(frame) |-> DateOf(frame[i].Date)]

\* lines 64-69, on integers: x > y * 1.1 iff 10 x > 11 y, x < y * 0.9 iff 10 x < 9 y
\* (for the sums of the model the floating-point products round to the same side)
TrendOf(engagement_trend) ==
    LET n     == Len(engagement_trend)
        first == engagement_trend[1].value
        last  == engagement_trend[n].value
    IN  IF n > 1
        THEN IF last * 10 > first * 11 THEN "meningkat"
             ELSE IF last * 10 < first * 9 THEN "menurun"
             ELSE "stabil"
        ELSE "stabil"

\* Series.value_counts(): one count per non-missing value (row order not modelled)
ValueCounts(frame, col) ==
    {[name |-> v, count |-> Count(frame, col, v)] : v \in Present(frame, col)}

-----------------------------------------------------------------------------
(* generate_campaign_summary, lines 50-112 *)

\* lines 58 and 74: the statements outside the try block that can raise
InsightsRaise(frame, hasMedia) ==
    \/ Mode0Raises(frame, "Sentiment")
    \/ hasMedia /\ Mode0Raises(frame, "MediaType")

\* lines 58-77
Insights(frame, hasMedia) ==
    LET platform_engagement == SortDescending(GroupSum(frame, "Platform"))
        engagement_trend    == SumByKey(frame, TimestampKeys(frame))
        location_engagement == SortDescending(GroupSum(frame, "Location"))
    IN  [dominant_sentiment  |-> Mode0(frame, "Sentiment"),
         top_platform        |-> IF platform_engagement # <<>>
                                 THEN platform_engagement[1].name ELSE "N/A",
         top_platform_engagements |-> IF platform_engagement # <<>>
                                 THEN platform_engagement[1].value ELSE 0,
         overall_trend       |-> TrendOf(engagement_trend),
         dominant_media_type |-> IF hasMedia THEN Mode0(frame, "MediaType") ELSE "N/A",
         top_location        |-> IF location_engagement # <<>>
                                 THEN location_engagement[1].name ELSE "N/A",
         top_location_engagements |-> IF location_engagement # <<>>
                                 THEN location_engagement[1].value ELSE 0]

\* line 197 not taken: the button was not pressed in this run
SkipSummary ==
    /\ pc = "summary"
    /\ gemini_api_key' \in {"", "key"}
    /\ clicked' = FALSE
    /\ pc' = "charts"
    /\ UNCHANGED <<uploaded_file, df, platform, sentiment, media_type, location,
                   date_range, filtered_df, call, insights, requests, summary, views>>

\* lines 202-203: pressed without a key
MissingKey ==
    /\ pc = "summary"
    /\ gemini_api_key' = ""
    /\ clicked' = TRUE
    /\ pc' = "charts"
    /\ UNCHANGED <<uploaded_file, df, platform, sentiment, media_type, location,
                   date_range, filtered_df, call, insights, requests, summary, views>>

\* lines 198-200 and 54-99: the call, up to and including requests.post being sent
CallSummary ==
    /\ pc = "summary"
    /\ gemini_api_key' = "key"
    /\ clicked' = TRUE
    /\ IF filtered_df = <<>>
       THEN /\ call' = "returned"
            /\ summary' = "insufficient_data"
            /\ pc' = "charts"
            /\ UNCHANGED <<insights, requests>>
       ELSE IF InsightsRaise(filtered_df, HasMedia)
       THEN /\ call' = "raised"
            /\ pc' = "exception"
            /\ UNCHANGED <<insights, requests, summary>>
       ELSE /\ call' = "running"
            /\ insights' = Insights(filtered_df, HasMedia)
            /\ requests' = requests + 1
            /\ pc' = "awaiting"
            /\ UNCHANGED summary
    /\ UNCHANGED <<uploaded_file, df, platform, sentiment, media_type, location,
                   date_range, filtered_df, views>>

Outcomes == {"transport_error", "http_error", "unexpected_shape", "missing_text", "ok"}

\* lines 99-112: what the call returns for each way the request can end
SummaryFor(outcome) ==
    CASE outcome \in {"transport_error", "http_error"} -> "api_error"
      [] outcome = "unexpected_shape" -> "unexpected_response"
      [] outcome = "missing_text" -> "other_error"
      [] outcome = "ok" -> "generated_text"

\* requests.post returns or raises; the call returns a string and line 201 shows it
Response(outcome) ==
    /\ pc = "awaiting"
    /\ summary' = SummaryFor(outcome)
    /\ call' = "returned"
    /\ pc' = "charts"
    /\ UNCHANGED <<uploaded_file, df, platform, sentiment, media_type, location,
                   date_range, filtered_df, gemini_api_key, clicked, insights,
                   requests, views>>

-----------------------------------------------------------------------------
(* The charts, lines 206-281 *)

\* (a variant in which the charts do not wait for requests.post)
ChartsMayRunWhileAwaiting == pc \in {"charts", "awaiting"}

\* requests.post is a blocking call inside the button handler: line 206 is
\* reached only when the lines above it have completed
ChartsMayRun == pc = "charts"

Charts ==
    /\ ChartsMayRun
    /\ views' =
        [computed        |-> TRUE,
         sentiment_data  |-> ValueCounts(filtered_df, "Sentiment"),
         platform_data   |-> SortDescending(GroupSum(filtered_df, "Platform")),
         media_type_data |-> IF HasMedia THEN ValueCounts(filtered_df, "MediaType")
                             ELSE {},
         location_data   |-> SortAscending(NLargest(GroupSum(filtered_df, "Location"))),
         engagement_trend_data |-> SumByKey(filtered_df, DayKeys(filtered_df))]
    /\ pc' = "done"
    /\ UNCHANGED <<uploaded_file, df, platform, sentiment, media_type, location,
                   date_range, filtered_df, gemini_api_key, clicked, call, insights,
                   requests, summary>>

\* any widget interaction runs the script again from the top; the file stays
Rerun ==
    /\ pc \in {"done", "stopped", "exception"}
    /\ pc' = "parse"
    /\ df' = <<>>
    /\ platform' = "All" /\ sentiment' = "All" /\ media_type' = "All"
    /\ location' = "All"
    /\ date_range' = <<>>
    /\ filtered_df' = <<>>
    /\ gemini_api_key' = ""
    /\ clicked' = FALSE
    /\ call' = "none"
    /\ insights' = NoInsights
    /\ requests' = 0
    /\ summary' = "none"
    /\ views' = NoViews
    /\ UNCHANGED uploaded_file

-----------------------------------------------------------------------------
(* The uploaded files of the dashboard runs *)

\* rows that vary the time of day and the engagements
TimeRows ==
    {RawRow(d, e, "Positive", "X", "Image", "NY") :
        d \in {"2024-01-01 00:00", "2024-01-01 20:00", "2024-01-02 00:00",
               "2024-01-02 10:00"},
        e \in {"10", "12"}}

\* rows that vary the sentiment and the media type
ModeRows ==
    {RawRow("2024-01-01 00:00", "10", "Positive", "X", "Image", "NY"),
     RawRow("2024-01-01 00:00", "10", "Negative", "X", "Video", "NY")}

\* rows with missing cells
MissingRows ==
    {RawRow("2024-01-01 00:00", "10", s, p, m, l) :
        s \in {"", "Positive"}, p \in {"", "X"}, m \in {"", "Image"},
        l \in {"", "NY"}}

DashFiles ==
    {[hasMedia |-> TRUE, rows |-> rs] : rs \in SeqsUpTo(TimeRows, MaxRows)}
    \cup {[hasMedia |-> TRUE, rows |-> rs] : rs \in SeqsUpTo(ModeRows, MaxModeRows)}
    \cup {[hasMedia |-> h, rows |-> rs] :
            h \in BOOLEAN, rs \in SeqsUpTo(MissingRows, MaxRows)}

\* rows that vary the platform, the sentiment and the time
FilterRows ==
    {RawRow(d, "10", s, p, "Image", "NY") :
        d \in {"2024-01-01 00:00", "2024-01-02 00:00", "2024-01-02 10:00"},
        p \in {"X", "Y"}, s \in {"Positive", "Negative"}}

\* rows that vary the media type and the location, with and without the column
MediaRows ==
    {RawRow(d, "10", "Positive", "X", m, l) :
        d \in {"2024-01-01 00:00", "2024-01-02 10:00"},
        m \in {"Image", "Video"}, l \in {"NY", "LA"}}

FilterFiles ==
    {[hasMedia |-> TRUE, rows |-> rs] : rs \in SeqsUpTo(FilterRows, MaxRows)}
    \cup {[hasMedia |-> h, rows |-> rs] :
            h \in BOOLEAN, rs \in SeqsUpTo(MediaRows, MaxRows)}

UploadFilterFile == pc = "upload" /\ \E f \in FilterFiles : Upload(f)

NextFilter == UploadFilterFile \/ Parse \/ Sidebar \/ ApplyFilters

SpecFilter == Init /\ [][NextFilter]_vars

UploadFile == pc = "upload" /\ \E f \in DashFiles : Upload(f)

GetResponse == pc = "awaiting" /\ \E outcome \in Outcomes : Response(outcome)

Next ==
    \/ UploadFile
    \/ Parse
    \/ Sidebar
    \/ ApplyFilters
    \/ SkipSummary
    \/ MissingKey
    \/ CallSummary
    \/ GetResponse
    \/ Charts
    \/ Rerun

Spec == Init /\ [][Next]_vars

UploadParseFile == pc = "upload" /\ \E f \in ParseFiles : Upload(f)

NextParse == UploadParseFile \/ Parse

SpecParse == Init /\ [][NextParse]_vars

-----------------------------------------------------------------------------
(* Properties *)

TheFile == uploaded_file[1]

\* parse_csv has returned
Parsed == pc \notin {"upload", "parse"}

\* lines 171-184 have run
Filtered ==
    \/ pc \in {"summary", "awaiting", "charts", "done"}
    \/ pc = "stopped" /\ df # <<>>
    \/ pc = "exception" /\ call = "raised"

\* generate_campaign_summary has computed the scalars of the prompt
PromptBuilt == call \in {"running", "returned"} /\ filtered_df # <<>>

Matches(cell, choice) == choice = "All" \/ (cell = choice /\ cell # NaN)

MatchesCategories(r) ==
    /\ Matches(r.Platform, platform)
    /\ Matches(r.Sentiment, sentiment)
    /\ (HasMedia => Matches(r.MediaType, media_type))
    /\ Matches(r.Location, location)

\* the record's calendar day lies in the selected range, both ends included
DayInRange(r) ==
    Len(date_range) = 2 =>
        date_range[1] <= DateOf(r.Date) /\ DateOf(r.Date) <= date_range[2]

SatisfiesCriteria(r) == MatchesCategories(r) /\ DayInRange(r)

\* C1: the filtered result is exactly the sub-sequence of df, in row order and
\* with unchanged values, of the records that satisfy every active predicate
\* (the four category choices, 'All' excluding nothing, and the date range).
FilterIsExactConjunction ==
    Filtered => filtered_df = SelectSeq(df, SatisfiesCriteria)

\* The date predicate as lines 183-184 evaluate it: the timestamp lies between
\* the midnights that start the two days of the range.
TimestampInRange(r) ==
    Len(date_range) = 2 =>
        Midnight(date_range[1]) <= r.Date /\ r.Date <= Midnight(date_range[2])

SatisfiesAsCoded(r) == MatchesCategories(r) /\ TimestampInRange(r)

\* With that date predicate the successive filters are one order-preserving
\* conjunction: the divergence above is confined to the date predicate.
FilterIsConjunctionAsCoded ==
    Filtered => filtered_df = SelectSeq(df, SatisfiesAsCoded)

\* C2: with a complete date range selected, every record whose calendar day d
\* has start <= d <= end passes the date filter, whatever its time of day: a
\* record that passes the category choices and lies in the range is in the result.
DateRangeInclusiveByDay ==
    (Filtered /\ Len(date_range) = 2) =>
        \A i \in 1..Len(df) :
            (MatchesCategories(df[i]) /\ DayInRange(df[i]))
                => df[i] \in Range(filtered_df)

\* C3: every record returned by parse_csv has a non-negative integer
\* Engagements value.
EngagementsNonNegative ==
    Parsed => \A i \in 1..Len(df) : df[i].Engagements \in Nat

DateParses(r) == ToDatetime(r.Date) # {}

RowsWithDate == SelectSeq(TheFile.rows, DateParses)

SummaryNeverRaises == call # "raised"

\* C6: a call of generate_campaign_summary that has ended has issued no request
\* when the record set is empty and exactly one when it is not.
OneRequestPerSummaryCall ==
    call \in {"returned", "raised"} =>
        requests = (IF filtered_df = <<>> THEN 0 ELSE 1)

\* C7: the trend direction of the prompt is the classification of the daily
\* engagement trend (engagements summed per calendar date, in date order).
TrendFromDailyTotals ==
    PromptBuilt => insights.overall_trend = TrendOf(SumByKey(filtered_df, DayKeys(filtered_df)))

\* C8: the per-platform totals of the platform view add up to the total
\* engagements of the filtered set.
PlatformTotalsAddUp ==
    views.computed =>
        SumSeq(Column(views.platform_data, "value"))
            = SumSeq(Column(filtered_df, "Engagements"))

\* C9 (as stated): while the summary request is outstanding the views of the
\* run can be computed.
ChartsNotBlockedByRequest == pc = "awaiting" => ENABLED Charts

\* C9 (amended): the summary request blocks the run: while it is outstanding
\* no view of the run has been computed, and the views of a run in which the
\* summary was requested are computed only after the call has returned.
ChartsWaitForSummary ==
    /\ pc = "awaiting" => ~views.computed
    /\ (views.computed /\ clicked /\ gemini_api_key # "") => call = "returned"

\* the views of a run computed after the response of its summary request
ChartsAfterResponse ==
    views.computed /\ requests = 1 /\ call = "returned" /\ summary = "generated_text"

\* the value that reaches the maximum count first, in record order
FirstSeenMostFrequent(col) ==
    LET IsMax(v) == \A i \in 1..Len(filtered_df) :
                        \/ filtered_df[i][col] = NaN
                        \/ Count(filtered_df, col, v)
                               >= Count(filtered_df, col, filtered_df[i][col])
        first == CHOOSE i \in 1..Len(filtered_df) :
                     /\ filtered_df[i][col] # NaN
                     /\ IsMax(filtered_df[i][col])
                     /\ \A k \in 1..(i - 1) :
                            filtered_df[k][col] = NaN \/ ~IsMax(filtered_df[k][col])
    IN  filtered_df[first][col]

\* C10 (as stated): the dominant sentiment and media type of the prompt are the
\* most frequent values, ties broken by first appearance in record order.
DominantIsFirstSeen ==
    PromptBuilt =>
        /\ insights.dominant_sentiment = FirstSeenMostFrequent("Sentiment")
        /\ HasMedia => insights.dominant_media_type = FirstSeenMostFrequent("MediaType")

\* v is a most frequent non-missing value of the column and no other such value
\* sorts before it
IsSmallestMostFrequent(col, v) ==
    LET values == {filtered_df[i][col] : i \in 1..Len(filtered_df)} \ {NaN}
        most   == {x \in values : \A y \in values :
                       Count(filtered_df, col, x) >= Count(filtered_df, col, y)}
    IN  /\ v \in most
        /\ \A w \in most : AlphaRank(v) <= AlphaRank(w)

\* C10 (amended): the dominant sentiment and media type of the prompt are the
\* most frequent non-missing values, ties broken by the sort order of the values
\* (the smallest string wins), not by first appearance.
DominantIsSmallestMostFrequent ==
    PromptBuilt =>
        /\ IsSmallestMostFrequent("Sentiment", insights.dominant_sentiment)
        /\ HasMedia => IsSmallestMostFrequent("MediaType", insights.dominant_media_type)

\* a prompt built from a tie whose first record does not hold the smallest value
DominantOnTieNotFirstSeen ==
    /\ PromptBuilt
    /\ Len(filtered_df) = 2
    /\ filtered_df[1].Sentiment = "Positive"
    /\ filtered_df[2].Sentiment = "Negative"
    /\ insights.dominant_sentiment = "Negative"

====
